---- MODULE Spec2Model ----
(***************************************************************************)
(* Zip Walker (src/module/zipwalker.py): the three record parsers          *)
(* ZipLocalHeader, CentralDirectoryHeader and CentralDirectoryEnd, and the *)
(* sequential walk of Zip.__init__ over the bytes of one archive.          *)
(*                                                                         *)
(* Bytes are integers 0..255 and a buffer is a sequence of bytes.  Python  *)
(* slicing, struct.unpack and the exceptions the code can raise are        *)
(* modelled as the interpreter performs them: a slice past the end of the  *)
(* buffer is silently shortened, struct.unpack of a short string raises    *)
(* struct.error, and the use of an unbound name raises NameError.          *)
(***************************************************************************)
EXTENDS Integers, Sequences, FiniteSets, TLC

(***************************************************************************)
(* Bounds of the checked inputs.                                           *)
(***************************************************************************)
\* most local entries, and most central directory headers, of an input
MaxEntries == 2
\* most bytes appended after the last record of an input
MaxOverlay == 8
\* most bytes cut off the end of an input
MaxCut == 3

(***************************************************************************)
(* Python primitives.                                                      *)
(***************************************************************************)
Min(a, b) == IF a <= b THEN a ELSE b

\* s[a:b] for 0 <= a, 0 <= b: clamped to the string, never an error
Slice(s, a, b) ==
    LET lo == Min(a, Len(s))
        hi == Min(b, Len(s))
    IN  IF hi <= lo THEN <<>> ELSE SubSeq(s, lo + 1, hi)

\* s[a:]
SliceFrom(s, a) == Slice(s, a, Len(s))

\* the value that stands for "struct.unpack raised struct.error"
StructError == -1

\* struct.unpack('<H', s)[0]
UnpackH(s) == IF Len(s) # 2 THEN StructError ELSE s[1] + 256 * s[2]

\* struct.unpack('<I', s)[0]
UnpackI(s) ==
    IF Len(s) # 4 THEN StructError
    ELSE s[1] + 256 * s[2] + 65536 * s[3] + 16777216 * s[4]

\* the exceptions of the module, by what str(e) or the type says
NoError == "None"
LocalSignatureInvalid == "LocalHeader::Signature Invalid"
CentralSignatureInvalid == "CentralDirectoryHeader::Signature Invalid"
EndSignatureInvalid == "CentralDirectoryEnd::Signature Invalid"
StructErrorRaised == "struct.error"
NameErrorRaised == "NameError"

\* None, in a field that holds a byte string, and in one that holds a number
None == <<-1>>
NoneInt == -1

(***************************************************************************)
(* The four signatures.                                                    *)
(***************************************************************************)
LocalMagic == <<80, 75, 3, 4>>
CentralMagic == <<80, 75, 1, 2>>
EndMagic == <<80, 75, 5, 6>>
DescriptorMagic == <<80, 75, 7, 8>>

(***************************************************************************)
(* ZipLocalHeader.__init__(data).  raised is the exception the constructor *)
(* ends with (NoError when it returns); the fixed fields are unpacked in   *)
(* the order of the source, so the first short one raises.                 *)
(***************************************************************************)
\* the attributes of a ZipLocalHeader as __init__ first sets them (lines 76-90)
NoLocalHeader ==
    [raised |-> NoError, signature |-> None, flag |-> NoneInt,
     compression_method |-> NoneInt, compressed_size |-> NoneInt,
     uncompressed_size |-> NoneInt, filename_length |-> NoneInt,
     extra_field_length |-> NoneInt, filename |-> None, extra_field |-> None,
     encrypted |-> FALSE, length |-> 0]

\* a check of the two bytes 'PK' only
LocalSignaturePrefixValid(signature) == Slice(signature, 0, 2) = <<80, 75>>

\* line 96, negated: the signature is the local header's
LocalSignatureValid(signature) == signature = LocalMagic

\* a length that leaves the filename out
LocalHeaderLengthNoFilename(filename_length, extra_field_length) ==
    30 + extra_field_length

\* a length that leaves the fixed part out
LocalHeaderLengthNoFixed(filename_length, extra_field_length) ==
    filename_length + extra_field_length

\* a length that counts one filename byte where the header declares none
LocalHeaderLengthNonEmpty(filename_length, extra_field_length) ==
    (30 + (IF filename_length = 0 THEN 1 ELSE filename_length))
        + extra_field_length

\* lines 161 and 166: pointer = 0x1E + filename_length, then the length
LocalHeaderLength(filename_length, extra_field_length) ==
    (30 + filename_length) + extra_field_length

\* a test of the whole flag word
EncryptedAnyFlag(flag) == flag # 0

\* lines 121-123: self.encrypted, set when flag & 0x01
Encrypted(flag) == flag % 2 = 1

\* lines 108-119: the compression method as the debug log names it
CompressionMethod(compression_method) ==
    CASE compression_method = 6 -> "Imploded"
      [] compression_method = 8 -> "Deflated"
      [] compression_method = 9 -> "Enhanced Deflating using Deflate64"
      [] compression_method = 12 -> "BZIP2"
      [] compression_method = 14 -> "LZMA"
      [] OTHER -> "Other"

\* lines 125-134: the compression option as the debug log names it, for
\* methods 8 and 9 only ("" when nothing is logged)
CompressionOption(compression_method, flag) ==
    IF compression_method = 8 \/ compression_method = 9
    THEN LET compression_option == (flag \div 2) % 4
         IN  CASE compression_option = 0 -> "Normal"
               [] compression_option = 1 -> "Maximum"
               [] compression_option = 2 -> "Fast"
               [] compression_option = 3 -> "Super Fast"
    ELSE ""

ZipLocalHeader(data) ==
    LET signature == Slice(data, 0, 4)
        version == UnpackH(Slice(data, 4, 6))
        flag == UnpackH(Slice(data, 6, 8))
        compression_method == UnpackH(Slice(data, 8, 10))
        last_modify_time == UnpackH(Slice(data, 10, 12))
        last_modify_date == UnpackH(Slice(data, 12, 14))
        crc32 == UnpackI(Slice(data, 14, 18))
        compressed_size == UnpackI(Slice(data, 18, 22))
        uncompressed_size == UnpackI(Slice(data, 22, 26))
        filename_length == UnpackH(Slice(data, 26, 28))
        extra_field_length == UnpackH(Slice(data, 28, 30))
        fixed == {version, flag, compression_method, last_modify_time,
                  last_modify_date, crc32, compressed_size, uncompressed_size,
                  filename_length, extra_field_length}
        failed == [NoLocalHeader EXCEPT !.signature = signature]
    IN  IF ~LocalSignatureValid(signature)
        THEN [failed EXCEPT !.raised = LocalSignatureInvalid]
        ELSE IF StructError \in fixed
        THEN [failed EXCEPT !.raised = StructErrorRaised]
        ELSE [raised |-> NoError,
              signature |-> signature,
              flag |-> flag,
              compression_method |-> compression_method,
              compressed_size |-> compressed_size,
              uncompressed_size |-> uncompressed_size,
              filename_length |-> filename_length,
              extra_field_length |-> extra_field_length,
              filename |-> IF filename_length > 0
                           THEN Slice(data, 30, 30 + filename_length)
                           ELSE None,
              extra_field |-> IF extra_field_length > 0
                              THEN Slice(data, 30 + filename_length,
                                         30 + filename_length + extra_field_length)
                              ELSE None,
              encrypted |-> Encrypted(flag),
              length |-> LocalHeaderLength(filename_length, extra_field_length)]

(***************************************************************************)
(* CentralDirectoryHeader.__init__(data).                                  *)
(***************************************************************************)
\* the attributes as __init__ first sets them (lines 174-194)
NoCentralDirectoryHeader ==
    [raised |-> NoError, signature |-> None, filename_length |-> NoneInt,
     extra_field_length |-> NoneInt, comment_length |-> NoneInt,
     local_header_offset |-> NoneInt, filename |-> None, extra_field |-> None,
     comment |-> None, length |-> 0]

\* a check of the two bytes 'PK' only
CentralSignaturePrefixValid(signature) == Slice(signature, 0, 2) = <<80, 75>>

\* line 200, negated: the signature is the central directory header's
CentralSignatureValid(signature) == signature = CentralMagic

CentralDirectoryHeader(data) ==
    LET signature == Slice(data, 0, 4)
        version_made_by == UnpackH(Slice(data, 4, 6))
        version_needed_to_extract == UnpackH(Slice(data, 6, 8))
        flag == UnpackH(Slice(data, 8, 10))
        compression_method == UnpackH(Slice(data, 10, 12))
        last_modify_time == UnpackH(Slice(data, 12, 14))
        last_modify_date == UnpackH(Slice(data, 14, 16))
        crc32 == UnpackI(Slice(data, 16, 20))
        compressed_size == UnpackI(Slice(data, 20, 24))
        uncompressed_size == UnpackI(Slice(data, 24, 28))
        filename_length == UnpackH(Slice(data, 28, 30))
        extra_field_length == UnpackH(Slice(data, 30, 32))
        comment_length == UnpackH(Slice(data, 32, 34))
        disk_number_start == UnpackH(Slice(data, 34, 36))
        internal_file_attributes == UnpackH(Slice(data, 36, 38))
        external_file_attributes == UnpackI(Slice(data, 38, 42))
        local_header_offset == UnpackI(Slice(data, 42, 46))
        fixed == {version_made_by, version_needed_to_extract, flag,
                  compression_method, last_modify_time, last_modify_date,
                  crc32, compressed_size, uncompressed_size, filename_length,
                  extra_field_length, comment_length, disk_number_start,
                  internal_file_attributes, external_file_attributes,
                  local_header_offset}
        failed == [NoCentralDirectoryHeader EXCEPT !.signature = signature]
        pointer == (46 + filename_length) + extra_field_length
    IN  IF ~CentralSignatureValid(signature)
        THEN [failed EXCEPT !.raised = CentralSignatureInvalid]
        ELSE IF StructError \in fixed
        THEN [failed EXCEPT !.raised = StructErrorRaised]
        ELSE [raised |-> NoError,
              signature |-> signature,
              filename_length |-> filename_length,
              extra_field_length |-> extra_field_length,
              comment_length |-> comment_length,
              local_header_offset |-> local_header_offset,
              filename |-> IF filename_length > 0
                           THEN Slice(data, 46, 46 + filename_length)
                           ELSE None,
              extra_field |-> IF extra_field_length > 0
                              THEN Slice(data, 46 + filename_length, pointer)
                              ELSE None,
              comment |-> IF comment_length > 0
                          THEN Slice(data, pointer, pointer + comment_length)
                          ELSE None,
              length |-> pointer + comment_length]

(***************************************************************************)
(* CentralDirectoryEnd.__init__(data).  With zip_comment_length > 0 the    *)
(* constructor reads the unbound name zip_comment_length (line 311) and    *)
(* raises NameError.                                                       *)
(***************************************************************************)
\* the attributes as __init__ first sets them (lines 273-282)
NoCentralDirectoryEnd ==
    [raised |-> NoError, signature |-> None, number_file_entries |-> NoneInt,
     zip_comment_length |-> NoneInt, zip_comment |-> None, length |-> 0]

CentralDirectoryEnd(data) ==
    LET signature == Slice(data, 0, 4)
        number_this_disk == UnpackH(Slice(data, 4, 6))
        central_directory_start_disk == UnpackH(Slice(data, 6, 8))
        number_central_directory_entries == UnpackH(Slice(data, 8, 10))
        number_file_entries == UnpackH(Slice(data, 10, 12))
        central_directory_size == UnpackI(Slice(data, 12, 16))
        central_directory_offset == UnpackI(Slice(data, 16, 20))
        zip_comment_length == UnpackH(Slice(data, 20, 22))
        fixed == {number_this_disk, central_directory_start_disk,
                  number_central_directory_entries, number_file_entries,
                  central_directory_size, central_directory_offset,
                  zip_comment_length}
        failed == [NoCentralDirectoryEnd EXCEPT !.signature = signature]
    IN  IF signature # EndMagic
        THEN [failed EXCEPT !.raised = EndSignatureInvalid]
        ELSE IF StructError \in fixed
        THEN [failed EXCEPT !.raised = StructErrorRaised]
        ELSE IF zip_comment_length > 0
        THEN [failed EXCEPT !.raised = NameErrorRaised]
        ELSE [raised |-> NoError,
              signature |-> signature,
              number_file_entries |-> number_file_entries,
              zip_comment_length |-> zip_comment_length,
              zip_comment |-> None,
              length |-> 22 + zip_comment_length]

(***************************************************************************)
(* The input files.  An input is the byte string of an archive laid out as *)
(* a writer lays it out (local entries, central directory headers, end     *)
(* record), then damaged in the ways a file on disk can be: bytes appended *)
(* or cut off at the end, foreign bytes after the local entries, a local   *)
(* header after the central directory.  layout describes the input; the    *)
(* walker sees only the bytes.                                             *)
(***************************************************************************)
RECURSIVE Fill(_, _)
Fill(n, b) == IF n <= 0 THEN <<>> ELSE <<b>> \o Fill(n - 1, b)

LE16(n) == <<n % 256, (n \div 256) % 256>>

LE32(n) == <<n % 256, (n \div 256) % 256, (n \div 65536) % 256,
             (n \div 16777216) % 256>>

\* the local entries of the inputs: flag bit 0 (encrypted) and bit 3
\* (streamed) set and clear, with and without a data descriptor, with zero
\* and non-zero filename, extra field and payload
LocalKinds ==
    { [flag |-> 0, method |-> 8, fnlen |-> 2, exlen |-> 0, csize |-> 1, desc |-> FALSE],
      [flag |-> 8, method |-> 8, fnlen |-> 1, exlen |-> 1, csize |-> 1, desc |-> TRUE],
      [flag |-> 0, method |-> 0, fnlen |-> 0, exlen |-> 0, csize |-> 0, desc |-> TRUE],
      [flag |-> 9, method |-> 9, fnlen |-> 0, exlen |-> 0, csize |-> 0, desc |-> FALSE] }

\* the central directory headers of the inputs, by their three lengths
CentralKinds ==
    { [fnlen |-> 0, exlen |-> 0, cmlen |-> 0],
      [fnlen |-> 1, exlen |-> 0, cmlen |-> 1],
      [fnlen |-> 1, exlen |-> 2, cmlen |-> 0] }

DescriptorBytes(k) ==
    DescriptorMagic \o LE32(305419896) \o LE32(k.csize) \o LE32(k.csize)

LocalBytes(k) ==
    LocalMagic \o LE16(20) \o LE16(k.flag) \o LE16(k.method) \o LE16(0)
        \o LE16(0) \o LE32(305419896) \o LE32(k.csize) \o LE32(k.csize)
        \o LE16(k.fnlen) \o LE16(k.exlen) \o Fill(k.fnlen, 97)
        \o Fill(k.exlen, 1) \o Fill(k.csize, 65)
        \o (IF k.desc THEN DescriptorBytes(k) ELSE <<>>)

CentralBytes(k) ==
    CentralMagic \o LE16(20) \o LE16(20) \o LE16(0) \o LE16(8) \o LE16(0)
        \o LE16(0) \o LE32(305419896) \o LE32(0) \o LE32(0) \o LE16(k.fnlen)
        \o LE16(k.exlen) \o LE16(k.cmlen) \o LE16(0) \o LE16(0) \o LE32(0)
        \o LE32(0) \o Fill(k.fnlen, 97) \o Fill(k.exlen, 1) \o Fill(k.cmlen, 99)

\* end = -1: no end record; otherwise the length of its comment
EndBytes(n, end) ==
    IF end < 0 THEN <<>>
    ELSE EndMagic \o LE16(0) \o LE16(0) \o LE16(n) \o LE16(n) \o LE32(0)
             \o LE32(0) \o LE16(end) \o Fill(end, 99)

RECURSIVE Flatten(_)
Flatten(ss) == IF ss = <<>> THEN <<>> ELSE Head(ss) \o Flatten(Tail(ss))

SeqsUpTo(S, n) == UNION { [1..m -> S] : m \in 0..n }

\* the central directories of the inputs: headers of one kind
CentralSeqs ==
    { [i \in 1..n |-> k] : n \in 0..MaxEntries, k \in CentralKinds }

\* tail < 0: that many bytes cut off the end; tail > 0: that many appended
Tails == ((0 - MaxCut)..1) \cup {MaxOverlay}

Layouts ==
    { [locals |-> ls, central |-> cs, end |-> e, anomaly |-> a, tail |-> t] :
        ls \in SeqsUpTo(LocalKinds, MaxEntries),
        cs \in CentralSeqs,
        e \in {-1, 0, 1},
        a \in {"none", "foreign", "late_local"},
        t \in Tails }

BytesOf(l) ==
    LET body == Flatten([i \in 1..Len(l.locals) |-> LocalBytes(l.locals[i])])
                \o (IF l.anomaly = "foreign" THEN Fill(4, 88) ELSE <<>>)
                \o Flatten([i \in 1..Len(l.central) |-> CentralBytes(l.central[i])])
                \o (IF l.anomaly = "late_local"
                    THEN LocalBytes(CHOOSE k \in LocalKinds :
                                        k.fnlen = 0 /\ ~k.desc)
                    ELSE <<>>)
                \o EndBytes(Len(l.central), l.end)
    IN  IF l.tail >= 0 THEN body \o Fill(l.tail, 88)
        ELSE Slice(body, 0, Len(body) + l.tail)

(***************************************************************************)
(* Zip.__init__: the state of one walk.                                    *)
(***************************************************************************)
VARIABLES
    layout,                     \* how the input file was laid out
    data,                       \* self.data
    pointer,                    \* pointer
    signature,                  \* signature
    zipped_file,                \* the dict of the entry being read
    zipped_files,               \* self.zipped_files
    central_directory_headers,  \* self.central_directory_headers
    central_directory_end,      \* self.central_directory_end, if it was set
    overlay_length,             \* what the last block reports, NoneInt before
    pc,                         \* the statement the walk is at
    raised,                     \* the exception that ended the walk
    parsed                      \* the constructor calls made, in order

vars == <<layout, data, pointer, signature, zipped_file, zipped_files,
          central_directory_headers, central_directory_end, overlay_length,
          pc, raised, parsed>>

\* zipped_file = dict() (line 339); descriptor says whether the three
\* descriptor keys are present
NoFile == [localheader |-> NoLocalHeader, filedata |-> None,
           descriptor |-> FALSE, crc32 |-> NoneInt, compressedsize |-> NoneInt,
           uncompressedsize |-> NoneInt]

Init ==
    /\ layout \in Layouts
    /\ data = BytesOf(layout)
    /\ pointer = 0
    /\ signature = <<>>
    /\ zipped_file = NoFile
    /\ zipped_files = <<>>
    /\ central_directory_headers = <<>>
    /\ central_directory_end = NoCentralDirectoryEnd
    /\ overlay_length = NoneInt
    /\ pc = "LocalHeader"
    /\ raised = NoError
    /\ parsed = <<>>

\* one constructor call: which record, at which offset, the length it
\* reported, and whether it returned
Call(kind, rec) ==
    [kind |-> kind, offset |-> pointer, length |-> rec.length,
     ok |-> rec.raised = NoError]

\* an exception leaves __init__: nothing after the raising statement runs
Raise(e) ==
    /\ raised' = e
    /\ UNCHANGED <<layout, data, pointer, signature, zipped_file, zipped_files,
                   central_directory_headers, central_directory_end,
                   overlay_length, pc>>

\* lines 339-342: a new dict, the local header, and the advance past it
ReadLocalHeader ==
    /\ pc = "LocalHeader" /\ raised = NoError
    /\ LET h == ZipLocalHeader(SliceFrom(data, pointer))
       IN  /\ parsed' = Append(parsed, Call("local", h))
           /\ IF h.raised # NoError
              THEN /\ raised' = h.raised
                   /\ zipped_file' = NoFile
                   /\ UNCHANGED <<layout, data, pointer, signature,
                                  zipped_files, central_directory_headers,
                                  central_directory_end, overlay_length, pc>>
              ELSE /\ zipped_file' = [NoFile EXCEPT !.localheader = h]
                   /\ pointer' = pointer + h.length
                   /\ pc' = "FileData"
                   /\ UNCHANGED <<layout, data, signature, zipped_files,
                                  central_directory_headers,
                                  central_directory_end, overlay_length, raised>>

\* lines 344-346: the payload slice, and the advance by compressed_size
ReadFileData ==
    /\ pc = "FileData" /\ raised = NoError
    /\ LET size == zipped_file.localheader.compressed_size
       IN  /\ zipped_file' = [zipped_file EXCEPT
                                !.filedata = Slice(data, pointer, pointer + size)]
           /\ pointer' = pointer + size
    /\ pc' = "Descriptor"
    /\ UNCHANGED <<layout, data, signature, zipped_files,
                   central_directory_headers, central_directory_end,
                   overlay_length, raised, parsed>>

\* a test that trusts flag bit 3 of the local header
DescriptorFlagged(sig, localheader) == (localheader.flag \div 8) % 2 = 1

\* line 351: a data descriptor follows when its signature does; the local
\* header is not consulted
DescriptorFollows(sig, localheader) == sig = DescriptorMagic

\* lines 348-363: the next signature, and the data descriptor if it is one
ReadDataDescriptor ==
    /\ pc = "Descriptor" /\ raised = NoError
    /\ LET sig == Slice(data, pointer, pointer + 4)
           crc32 == UnpackI(Slice(data, pointer + 4, pointer + 8))
           compressedsize == UnpackI(Slice(data, pointer + 8, pointer + 12))
           uncompressedsize == UnpackI(Slice(data, pointer + 12, pointer + 16))
       IN  IF ~DescriptorFollows(sig, zipped_file.localheader)
           THEN /\ signature' = sig
                /\ pc' = "Append"
                /\ UNCHANGED <<layout, data, pointer, zipped_file, zipped_files,
                               central_directory_headers, central_directory_end,
                               overlay_length, raised, parsed>>
           ELSE IF StructError \in {crc32, compressedsize, uncompressedsize}
           THEN /\ raised' = StructErrorRaised
                /\ signature' = sig
                /\ UNCHANGED <<layout, data, pointer, zipped_file, zipped_files,
                               central_directory_headers, central_directory_end,
                               overlay_length, pc, parsed>>
           ELSE /\ zipped_file' = [zipped_file EXCEPT
                                     !.descriptor = TRUE,
                                     !.crc32 = crc32,
                                     !.compressedsize = compressedsize,
                                     !.uncompressedsize = uncompressedsize]
                /\ pointer' = pointer + 16
                /\ signature' = Slice(data, pointer + 16, pointer + 20)
                /\ pc' = "Append"
                /\ UNCHANGED <<layout, data, zipped_files,
                               central_directory_headers, central_directory_end,
                               overlay_length, raised, parsed>>

\* a loop that is left only for a central directory header
AfterZippedFileUntilCentral(sig) ==
    IF sig = CentralMagic THEN "CentralDirectory" ELSE "LocalHeader"

\* lines 366-369: the local entry loop goes on with another local header,
\* or is left for the central directory loop
AfterZippedFile(sig) == IF sig # LocalMagic THEN "CentralDirectory" ELSE "LocalHeader"

\* an append that keeps the entry only when a record it knows follows
AppendEntryIfFollowed(files, file, sig) ==
    IF sig \in {LocalMagic, CentralMagic} THEN Append(files, file) ELSE files

\* line 365: the entry is appended, whatever the next signature is
AppendEntry(files, file, sig) == Append(files, file)

\* lines 365-369: the entry is appended, then the loop continues or ends
AppendZippedFile ==
    /\ pc = "Append" /\ raised = NoError
    /\ zipped_files' = AppendEntry(zipped_files, zipped_file, signature)
    /\ pc' = AfterZippedFile(signature)
    /\ UNCHANGED <<layout, data, pointer, signature, zipped_file,
                   central_directory_headers, central_directory_end,
                   overlay_length, raised, parsed>>

\* a loop exit that goes back for a local header when it sees one
AfterCentralDirectoryRevisits(sig) ==
    IF sig = LocalMagic THEN "LocalHeader" ELSE "End"

\* lines 374-375 and 388: the central directory loop is left for the end
\* record test, whatever the signature is
AfterCentralDirectory(sig) == "End"

\* lines 372-386: one turn of the central directory loop
ReadCentralDirectoryHeader ==
    /\ pc = "CentralDirectory" /\ raised = NoError
    /\ IF signature # CentralMagic
       THEN /\ pc' = AfterCentralDirectory(signature)
            /\ UNCHANGED <<layout, data, pointer, signature, zipped_file,
                           zipped_files, central_directory_headers,
                           central_directory_end, overlay_length, raised, parsed>>
       ELSE LET h == CentralDirectoryHeader(SliceFrom(data, pointer))
            IN  /\ parsed' = Append(parsed, Call("central", h))
                /\ IF h.raised # NoError
                   THEN Raise(h.raised)
                   ELSE /\ central_directory_headers' =
                               Append(central_directory_headers, h)
                        /\ pointer' = pointer + h.length
                        /\ signature' = Slice(data, pointer + h.length,
                                              pointer + h.length + 4)
                        /\ UNCHANGED <<layout, data, zipped_file, zipped_files,
                                       central_directory_end, overlay_length,
                                       pc, raised>>

\* lines 388-393: the end record, if its signature is there
ReadCentralDirectoryEnd ==
    /\ pc = "End" /\ raised = NoError
    /\ IF signature # EndMagic
       THEN /\ pc' = "Overlay"
            /\ UNCHANGED <<layout, data, pointer, signature, zipped_file,
                           zipped_files, central_directory_headers,
                           central_directory_end, overlay_length, raised, parsed>>
       ELSE LET e == CentralDirectoryEnd(SliceFrom(data, pointer))
            IN  /\ parsed' = Append(parsed, Call("end", e))
                /\ IF e.raised # NoError
                   THEN Raise(e.raised)
                   ELSE /\ central_directory_end' = e
                        /\ pointer' = pointer + e.length
                        /\ pc' = "Overlay"
                        /\ UNCHANGED <<layout, data, signature, zipped_file,
                                       zipped_files, central_directory_headers,
                                       overlay_length, raised>>

\* lines 395-398: 'File End' when the cursor is at the end of the buffer;
\* otherwise the elif reads the unbound name data and raises NameError
CheckOverlay ==
    /\ pc = "Overlay" /\ raised = NoError
    /\ IF pointer = Len(data)
       THEN /\ overlay_length' = Len(data) - pointer
            /\ pc' = "Done"
            /\ UNCHANGED raised
       ELSE /\ raised' = NameErrorRaised
            /\ UNCHANGED <<overlay_length, pc>>
    /\ UNCHANGED <<layout, data, pointer, signature, zipped_file, zipped_files,
                   central_directory_headers, central_directory_end, parsed>>

Next ==
    \/ ReadLocalHeader
    \/ ReadFileData
    \/ ReadDataDescriptor
    \/ AppendZippedFile
    \/ ReadCentralDirectoryHeader
    \/ ReadCentralDirectoryEnd
    \/ CheckOverlay

Spec == Init /\ [][Next]_vars

\* the inputs of the fair walk: local entries of one kind; one byte cut
\* off, nothing, or MaxOverlay bytes appended behind an archive, and the
\* anomalies with nothing cut or appended
UniformLayouts ==
    { l \in Layouts :
        /\ \A i \in 1..Len(l.locals) : l.locals[i] = l.locals[1]
        /\ l.tail \in {-1, 0, MaxOverlay}
        /\ l.anomaly # "none" => l.tail = 0 }

FairInit == Init /\ layout \in UniformLayouts

\* the walk runs to its end: __init__ is one uninterrupted call
FairSpec == FairInit /\ [][Next]_vars /\ WF_vars(Next)

Finished == pc = "Done" \/ raised # NoError

\* the caller's name for the archive (testzip = zipwalker.Zip(...)): it is
\* bound to the object only when __init__ returns; when __init__ raises, the
\* caller has the exception and no object
NoZip == [bound |-> FALSE, zipped_files |-> <<>>,
          central_directory_headers |-> <<>>]

testzip ==
    IF pc = "Done"
    THEN [bound |-> TRUE, zipped_files |-> zipped_files,
          central_directory_headers |-> central_directory_headers]
    ELSE NoZip

(***************************************************************************)
(* Properties of the walk.                                                 *)
(***************************************************************************)
Rank(kind) == CASE kind = "local" -> 1 [] kind = "central" -> 2 [] kind = "end" -> 3

Calls(kind) == { i \in 1..Len(parsed) : parsed[i].kind = kind }

\* C1: the walk is strictly phase-ordered: every local header parse comes
\* before every central directory header parse, every central directory
\* header parse before the end record parse, at most one end record is
\* parsed, and no record of a phase the walker has left is parsed again.
C1_PhaseOrdered ==
    /\ \A i, j \in 1..Len(parsed) :
          i < j => Rank(parsed[i].kind) <= Rank(parsed[j].kind)
    /\ Cardinality(Calls("end")) <= 1
    /\ pc \in {"LocalHeader", "FileData", "Descriptor", "Append"} =>
          Calls("central") = {} /\ Calls("end") = {}
    /\ pc = "CentralDirectory" => Calls("end") = {}

\* a local header signature is at the cursor after central directory
\* headers were parsed, and the walk has gone on to its last block
C1_Witness ==
    /\ pc = "Overlay"
    /\ signature = LocalMagic
    /\ Calls("local") # {} /\ Calls("central") # {}

\* the input is an archive as a writer lays it out: n >= 1 local entries,
\* n central directory headers, an end record with no comment
ValidArchive(l) ==
    /\ Len(l.locals) >= 1
    /\ Len(l.central) = Len(l.locals)
    /\ l.end = 0
    /\ l.anomaly = "none"
    /\ l.tail >= 0

WellFormed(l) ==
    /\ ValidArchive(l)
    /\ l.tail = 0
    /\ \A i \in 1..Len(l.locals) : ~l.locals[i].desc

\* C2: the walk of a well-formed archive of n entries without data
\* descriptors raises nothing and ends with n entries, n central directory
\* headers, the end record, the cursor at the end of the buffer and an
\* overlay length of 0.
C2_WellFormedWalk ==
    WellFormed(layout) =>
        /\ raised = NoError
        /\ pc = "Overlay" => pointer = Len(data)
        /\ pc = "Done" =>
              /\ Len(zipped_files) = Len(layout.locals)
              /\ Len(central_directory_headers) = Len(layout.locals)
              /\ central_directory_end # NoCentralDirectoryEnd
              /\ Cardinality(Calls("end")) = 1
              /\ pointer = Len(data)
              /\ overlay_length = 0

C2_Witness ==
    /\ WellFormed(layout)
    /\ Len(layout.locals) = MaxEntries
    /\ pc = "Done"

\* the first four bytes of the buffer are not a local header's signature
NotZip == Slice(data, 0, 4) # LocalMagic

\* C6: for an empty buffer, or one that does not begin with PK\x03\x04, the
\* walk ends at the first local header read with 'LocalHeader::Signature
\* Invalid', with nothing recorded and the cursor still at 0.
C6_NotAnArchive ==
    NotZip =>
        /\ pc = "LocalHeader"
        /\ pointer = 0
        /\ zipped_files = <<>>
        /\ central_directory_headers = <<>>
        /\ central_directory_end = NoCentralDirectoryEnd
        /\ overlay_length = NoneInt
        /\ \/ raised = NoError /\ parsed = <<>>
           \/ /\ raised = LocalSignatureInvalid
              /\ Len(parsed) = 1
              /\ parsed[1].kind = "local" /\ ~parsed[1].ok

\* a buffer that begins with 'PK' and is no local header has been refused
C6_Witness ==
    /\ NotZip
    /\ Slice(data, 0, 2) = <<80, 75>>
    /\ raised = LocalSignatureInvalid

\* C3: appending N bytes to a valid archive makes the walk end at Done,
\* without an error, reporting an overlay length of exactly N, with the same
\* entries, central directory headers and end record as for N = 0.
C3_OverlayReported ==
    ValidArchive(layout) /\ Finished =>
        /\ raised = NoError
        /\ pc = "Done"
        /\ overlay_length = layout.tail
        /\ Len(zipped_files) = Len(layout.locals)
        /\ Len(central_directory_headers) = Len(layout.central)
        /\ central_directory_end # NoCentralDirectoryEnd

\* C4: the cursor never leaves the buffer.
C4_CursorInBounds == 0 <= pointer /\ pointer <= Len(data)

\* the variable fields of a record hold as many bytes as the record declares
WholeFields(h, names) ==
    \A n \in names : h[n[1]] > 0 => Len(h[n[2]]) = h[n[1]]

\* C5: no read past the end of the buffer yields a shortened value: every
\* filename, extra field, comment and payload that the walk holds has the
\* length that was asked for (and a read that cannot be served aborts the
\* walk instead).
C5_NoShortRead ==
    /\ zipped_file.localheader # NoLocalHeader =>
          WholeFields(zipped_file.localheader,
                      {<<"filename_length", "filename">>,
                       <<"extra_field_length", "extra_field">>})
    /\ zipped_file.filedata # None =>
          Len(zipped_file.filedata) = zipped_file.localheader.compressed_size
    /\ \A i \in 1..Len(central_directory_headers) :
          WholeFields(central_directory_headers[i],
                      {<<"filename_length", "filename">>,
                       <<"extra_field_length", "extra_field">>,
                       <<"comment_length", "comment">>})

\* C7: the length of every record that was parsed is the number of bytes of
\* the buffer it was parsed from, and the cursor stands right behind the
\* record just parsed.
C7_LengthIsConsumed ==
    /\ \A i \in 1..Len(parsed) :
          parsed[i].ok =>
              Len(Slice(data, parsed[i].offset,
                        parsed[i].offset + parsed[i].length)) = parsed[i].length
    /\ pc = "FileData" =>
          pointer = parsed[Len(parsed)].offset + parsed[Len(parsed)].length
    /\ pc = "Overlay" /\ Calls("end") # {} =>
          pointer = parsed[Len(parsed)].offset + parsed[Len(parsed)].length

\* the successful calls of the two loops
Turns == { i \in 1..Len(parsed) :
             parsed[i].ok /\ parsed[i].kind \in {"local", "central"} }

FixedPart(kind) == IF kind = "local" THEN 30 ELSE 46

\* one step of the walk: the cursor does not go back, a turn of either loop
\* begins where four bytes can be read and moves the cursor by the fixed
\* part of its record at least, so the turns are fewer than the bytes
C8_Step ==
    /\ pointer' >= pointer
    /\ pc = "LocalHeader" /\ raised' = NoError =>
          pointer' >= pointer + 30 /\ pointer + 4 <= Len(data)
    /\ pc = "CentralDirectory" /\ pc' = "CentralDirectory" /\ raised' = NoError =>
          pointer' >= pointer + 46 /\ pointer + 4 <= Len(data)
    /\ LET turns == { i \in 1..Len(parsed') :
                        parsed'[i].ok /\ parsed'[i].kind \in {"local", "central"} }
       IN  /\ \A i \in turns : parsed'[i].offset + 4 <= Len(data)
           /\ \A i, j \in turns :
                 i < j => parsed'[j].offset >=
                              parsed'[i].offset + FixedPart(parsed'[i].kind)
           /\ Cardinality(turns) <= Len(data)

\* C8: the walk of every buffer ends, at Done or with an exception; each
\* turn of the local entry loop moves the cursor forward by 30 bytes at
\* least and each turn of the central directory loop by 46, the cursor never
\* goes back, and a loop turns only where a whole signature can be read.
C8_Terminates == <>Finished /\ [][C8_Step]_vars

\* the central directory loop has turned MaxEntries times after as many
\* turns of the local entry loop, and the walk has ended
C8_Witness ==
    /\ Finished
    /\ Cardinality(Turns) = 2 * MaxEntries

\* one step of the walk at the data descriptor test, and behind it
C9_Step ==
    /\ pc = "Descriptor" =>
          LET sig == Slice(data, pointer, pointer + 4)
          IN  /\ sig = DescriptorMagic /\ raised' = NoError =>
                    /\ zipped_file'.descriptor
                    /\ pointer' = pointer + 16
                    /\ pointer' <= Len(data)
                    /\ zipped_file'.crc32 =
                           UnpackI(Slice(data, pointer + 4, pointer + 8))
                    /\ zipped_file'.uncompressedsize =
                           UnpackI(Slice(data, pointer + 12, pointer + 16))
              /\ sig # DescriptorMagic =>
                    /\ ~zipped_file'.descriptor
                    /\ pointer' = pointer
                    /\ raised' = NoError
              /\ raised' # NoError =>
                    sig = DescriptorMagic /\ Len(data) < pointer + 16
    /\ pc = "Append" /\ zipped_file.descriptor /\ signature = CentralMagic =>
          /\ pc' = "CentralDirectory"
          /\ zipped_files'[Len(zipped_files')].descriptor
    /\ pc = "CentralDirectory" /\ signature = CentralMagic =>
          /\ Len(parsed') = Len(parsed) + 1
          /\ parsed'[Len(parsed')].kind = "central"

\* C9: a data descriptor of 16 bytes is consumed and attached to the entry
\* exactly when the four bytes behind the payload are PK\x07\x08, whatever
\* flag bit 3 of the local header says (the walk aborts when the buffer ends
\* inside the descriptor); otherwise the entry has none and the cursor stays.
\* After a descriptor, PK\x01\x02 still starts the central directory loop.
C9_DescriptorBySignature == [][C9_Step]_vars

FlagBit3(h) == (h.flag \div 8) % 2 = 1

\* an entry with a descriptor and flag bit 3 clear, an entry without one and
\* flag bit 3 set, and the central directory reached behind them
C9_Witness ==
    /\ Calls("central") # {}
    /\ \E i \in 1..Len(zipped_files) :
          zipped_files[i].descriptor /\ ~FlagBit3(zipped_files[i].localheader)
    /\ \E i \in 1..Len(zipped_files) :
          ~zipped_files[i].descriptor /\ FlagBit3(zipped_files[i].localheader)

\* C10: a signature behind the local entries that starts neither a local
\* header nor a central directory header, and a missing end record, do not
\* keep the walk from Done: nothing is raised and the overlay length
\* len(data) - pointer is computed.
C10_AnomaliesRecoverable ==
    (Calls("central") = {} \/ Calls("end") = {}) =>
        /\ pc = "Overlay" => raised = NoError
        /\ pc = "Done" => overlay_length = Len(data) - pointer

\* the fatal errors: a signature that does not match, and a short read
Fatal == {LocalSignatureInvalid, CentralSignatureInvalid, EndSignatureInvalid,
          StructErrorRaised}

\* C11: when a fatal error ends the walk after k entries and m central
\* directory headers were appended, the caller has the error together with
\* a partial archive of exactly those k entries and m headers, in order.
C11_PartialModelSurfaced ==
    raised \in Fatal =>
        /\ testzip.zipped_files = zipped_files
        /\ testzip.central_directory_headers = central_directory_headers

\* the bytes of a local header with bit 0 of its flag field inverted
FlipFlagBit0(d) == [d EXCEPT ![7] = IF @ % 2 = 0 THEN @ + 1 ELSE @ - 1]

\* C12: a parsed local header is encrypted exactly when bit 0 of its flag is
\* set, and the same bytes with only that bit inverted parse to a header
\* that differs in flag and encrypted alone (same length, sizes, filename
\* and extra field), so the cursor moves the same way.
C12_EncryptedBit ==
    pc = "FileData" =>
        LET d == SliceFrom(data, parsed[Len(parsed)].offset)
            h == zipped_file.localheader
            g == ZipLocalHeader(FlipFlagBit0(d))
        IN  /\ h = ZipLocalHeader(d)
            /\ h.encrypted <=> (h.flag % 2 = 1)
            /\ g.raised = NoError
            /\ g.encrypted <=> ~h.encrypted
            /\ g.flag # h.flag
            /\ g.flag \div 2 = h.flag \div 2
            /\ [g EXCEPT !.flag = h.flag, !.encrypted = h.encrypted] = h
            /\ pointer = parsed[Len(parsed)].offset + g.length

\* an encrypted local header has been parsed behind one that is not
C12_Witness ==
    /\ pc = "FileData"
    /\ zipped_file.localheader.encrypted
    /\ zipped_file.localheader.flag > 1
    /\ Len(zipped_files) >= 1
    /\ ~zipped_files[1].localheader.encrypted

\* the same bytes with the first one overwritten
Garbled(d) == IF d = <<>> THEN d ELSE [d EXCEPT ![1] = 0]

\* C13: each of the three parsers compares the signature first: on bytes
\* that do not begin with its magic value it fails with its signature error
\* and has decoded no other field, also when the bytes behind the signature
\* are a well-formed record, and also when they are too few for the fields.
C13_SignatureFirst ==
    \A d \in {SliceFrom(data, pointer), Garbled(SliceFrom(data, pointer))} :
        LET sig == Slice(d, 0, 4)
        IN  /\ sig # LocalMagic =>
                  ZipLocalHeader(d) =
                      [NoLocalHeader EXCEPT !.signature = sig,
                                            !.raised = LocalSignatureInvalid]
            /\ sig # CentralMagic =>
                  CentralDirectoryHeader(d) =
                      [NoCentralDirectoryHeader EXCEPT
                           !.signature = sig,
                           !.raised = CentralSignatureInvalid]
            /\ sig # EndMagic =>
                  CentralDirectoryEnd(d) =
                      [NoCentralDirectoryEnd EXCEPT
                           !.signature = sig, !.raised = EndSignatureInvalid]

\* the cursor is at a central directory header that parses, and at a local
\* header that parses: with the first byte overwritten each is refused
C13_Witness ==
    /\ pc = "CentralDirectory"
    /\ CentralDirectoryHeader(SliceFrom(data, pointer)).raised = NoError
    /\ CentralDirectoryHeader(Garbled(SliceFrom(data, pointer))).raised =
           CentralSignatureInvalid
    /\ CentralDirectoryEnd(SliceFrom(data, pointer)).raised = EndSignatureInvalid
    /\ ZipLocalHeader(SliceFrom(data, pointer)).raised = LocalSignatureInvalid

\* the byte offset an exception of the module carries: none, the only
\* argument of each is its message (lines 97, 201, 287; struct.error and
\* NameError have the interpreter's message)
OffsetOf(e) == NoneInt

\* C14: every error of the walk carries the byte offset at which it was
\* detected, the cursor of the failing read.
C14_ErrorCarriesOffset == raised # NoError => OffsetOf(raised) = pointer

\* C15: each parser succeeds on a record that lies in the buffer and
\* reports the length its layout gives: 30 + filename_length +
\* extra_field_length, 46 + filename_length + extra_field_length +
\* comment_length, 22 + zip_comment_length; with zip_comment_length > 0 the
\* end record is parsed and zip_comment is the bytes from offset 22.
C15_ParsersSucceed ==
    \A i \in 1..Len(parsed) :
        LET c == parsed[i]
            d == SliceFrom(data, c.offset)
            local == 30 + UnpackH(Slice(d, 26, 28)) + UnpackH(Slice(d, 28, 30))
            central == 46 + UnpackH(Slice(d, 28, 30))
                          + UnpackH(Slice(d, 30, 32))
                          + UnpackH(Slice(d, 32, 34))
            end == 22 + UnpackH(Slice(d, 20, 22))
        IN  /\ c.kind = "local" /\ Slice(d, 0, 4) = LocalMagic
                  /\ Len(d) >= 30 /\ Len(d) >= local =>
                      c.ok /\ c.length = local
            /\ c.kind = "central" /\ Len(d) >= 46 /\ Len(d) >= central =>
                      c.ok /\ c.length = central
            /\ c.kind = "end" /\ Len(d) >= 22 /\ Len(d) >= end =>
                  /\ c.ok
                  /\ c.length = end
                  /\ end > 22 => central_directory_end.zip_comment =
                                     Slice(d, 22, end)

\* the bytes of a record with the 16-bit field at byte offset o set to 0
ZeroField(d, o) == [d EXCEPT ![o + 1] = 0, ![o + 2] = 0]

\* C16: a length field of 0 is never an error.  The bytes of a parsed local
\* header with filename_length set to 0 parse to a header without filename,
\* of length 30 + extra_field_length, its extra field read from offset 30
\* and every other field the same; likewise with extra_field_length set to
\* 0, with each length of a central directory header set to 0, and with the
\* zip_comment_length of an end record set to 0.
C16_ZeroLengthNoError ==
    LET d == SliceFrom(data, pointer)
    IN  /\ pc = "FileData" =>
              LET b == SliceFrom(data, parsed[Len(parsed)].offset)
                  h == zipped_file.localheader
                  z == ZipLocalHeader(ZeroField(b, 26))
                  x == ZipLocalHeader(ZeroField(b, 28))
              IN  /\ z.raised = NoError
                  /\ z.filename_length = 0 /\ z.filename = None
                  /\ z.length = 30 + h.extra_field_length
                  /\ z.extra_field =
                         IF h.extra_field_length > 0
                         THEN Slice(b, 30, 30 + h.extra_field_length)
                         ELSE None
                  /\ [z EXCEPT !.filename_length = h.filename_length,
                               !.filename = h.filename,
                               !.extra_field = h.extra_field,
                               !.length = h.length] = h
                  /\ x.raised = NoError
                  /\ x.extra_field_length = 0 /\ x.extra_field = None
                  /\ x.length = 30 + h.filename_length
                  /\ x.filename = h.filename
        /\ pc = "CentralDirectory" /\ signature = CentralMagic /\ Len(d) >= 46 =>
              LET h == CentralDirectoryHeader(d)
                  f == CentralDirectoryHeader(ZeroField(d, 28))
                  x == CentralDirectoryHeader(ZeroField(d, 30))
                  c == CentralDirectoryHeader(ZeroField(d, 32))
              IN  /\ h.raised = NoError
                  /\ f.raised = NoError /\ f.filename = None
                  /\ f.length = 46 + h.extra_field_length + h.comment_length
                  /\ x.raised = NoError /\ x.extra_field = None
                  /\ x.length = 46 + h.filename_length + h.comment_length
                  /\ c.raised = NoError /\ c.comment = None
                  /\ c.length = 46 + h.filename_length + h.extra_field_length
        /\ pc = "End" /\ signature = EndMagic /\ Len(d) >= 22 =>
              LET e == CentralDirectoryEnd(ZeroField(d, 20))
              IN  /\ e.raised = NoError
                  /\ e.zip_comment = None
                  /\ e.length = 22

\* a local header with a filename and an extra field has been parsed
C16_Witness ==
    /\ pc = "FileData"
    /\ zipped_file.localheader.filename_length > 0
    /\ zipped_file.localheader.extra_field_length > 0
    /\ ZipLocalHeader(ZeroField(SliceFrom(data, parsed[Len(parsed)].offset), 26)).length
           < zipped_file.localheader.length

\* the tags the compression methods are to be reported with
ClaimedMethod(m) ==
    CASE m = 0 -> "Stored"
      [] m = 6 -> "Imploded"
      [] m = 8 -> "Deflated"
      [] m = 9 -> "Enhanced Deflating using Deflate64"
      [] m = 12 -> "BZIP2"
      [] m = 14 -> "LZMA"
      [] OTHER -> "Other"

\* C17: the local header parser reports method 0 as Stored, 6 as Imploded,
\* 8 as Deflated, 9 as Deflate64, 12 as BZIP2, 14 as LZMA and every other
\* value as Other; it derives the compression option exactly for methods 8
\* and 9; and the length of the record does not depend on either.
C17_MethodClassified ==
    pc = "FileData" =>
        LET h == zipped_file.localheader
        IN  /\ \A m \in {h.compression_method, 0, 6, 7, 8, 9, 12, 14, 99} :
                  /\ CompressionMethod(m) = ClaimedMethod(m)
                  /\ CompressionOption(m, h.flag) # "" <=> m \in {8, 9}
            /\ h.length = 30 + h.filename_length + h.extra_field_length
            /\ pointer = parsed[Len(parsed)].offset + h.length

Magic(kind) ==
    CASE kind = "local" -> LocalMagic
      [] kind = "central" -> CentralMagic
      [] kind = "end" -> EndMagic

\* C18: behind the first local header, every parser is called only where
\* the four bytes at the cursor have been found to be its magic value, so
\* the only signature error of a walk is that of the first local header at
\* offset 0, and the signature errors of CentralDirectoryHeader and
\* CentralDirectoryEnd are never raised.
C18_ParsersCalledAtMagic ==
    /\ \A i \in 2..Len(parsed) :
          Slice(data, parsed[i].offset, parsed[i].offset + 4) =
              Magic(parsed[i].kind)
    /\ pc = "LocalHeader" /\ parsed # <<>> /\ raised = NoError =>
          signature = LocalMagic
    /\ pc \in {"LocalHeader", "CentralDirectory", "End"} /\ parsed # <<>>
              /\ raised = NoError =>
          signature = Slice(data, pointer, pointer + 4)
    /\ raised \notin {CentralSignatureInvalid, EndSignatureInvalid}
    /\ raised = LocalSignatureInvalid =>
          Len(parsed) = 1 /\ parsed[1].offset = 0 /\ pointer = 0

\* a walk that called every parser behind the first local header
C18_Witness ==
    /\ pc = "Done"
    /\ Cardinality(Calls("local")) >= 2
    /\ Calls("central") # {}
    /\ Calls("end") # {}

\* the local headers that were parsed
LocalTurns == { i \in 1..Len(parsed) : parsed[i].kind = "local" /\ parsed[i].ok }

\* the entries recorded are the local entries read without error, in the
\* order of their offsets in the buffer
C19_Recorded ==
    /\ Len(zipped_files) =
          Cardinality(LocalTurns)
              - (IF pc \in {"FileData", "Descriptor", "Append"} THEN 1 ELSE 0)
    /\ \A i \in 1..Len(zipped_files) :
          /\ i \in LocalTurns
          /\ zipped_files[i].localheader =
                 ZipLocalHeader(SliceFrom(data, parsed[i].offset))
          /\ i > 1 => parsed[i].offset > parsed[i - 1].offset

\* one step of the walk: at line 365 the entry is appended whatever
\* signature follows, and no step changes or removes a recorded entry
C19_Step ==
    /\ pc = "Append" => zipped_files' = Append(zipped_files, zipped_file)
    /\ Len(zipped_files') >= Len(zipped_files)
    /\ SubSeq(zipped_files', 1, Len(zipped_files)) = zipped_files

\* C19: an entry is appended before the signature behind it is examined:
\* when the local entry loop has ended, the entries recorded are the local
\* entries whose header, payload and data descriptor were read without
\* error, the last one included when an unexpected terminator or the end of
\* the buffer follows it; they are in increasing order of offset, and a
\* recorded entry is never changed or removed.
C19_EntriesRecorded == []C19_Recorded /\ [][C19_Step]_vars

\* MaxEntries entries are recorded, the last in front of foreign bytes
C19_Witness ==
    /\ pc = "Overlay"
    /\ Len(zipped_files) = MaxEntries
    /\ signature = Fill(4, 88)

====
